---- MODULE Spec2Model ----
(***************************************************************************)
(* Voxel game: the block world (world.js), the player physics and          *)
(* inventory (player.js) and the block interaction handlers (input.js).    *)
(*                                                                         *)
(* Numbers.  Positions are IEEE doubles in the program.  A coordinate is   *)
(* modelled as a pair [n, r]: the value n/D + r*(2^-53/D), D = 60^3.  The  *)
(* part n is the exact decimal value in units of 1/216000 (one velocity    *)
(* unit integrated over one fixed step), the residue r is the distance to  *)
(* that decimal value left by binary rounding, in units of 2^-53/D.  Every *)
(* sum or difference of coordinates the code computes is rounded to the    *)
(* nearest double, ties to even (Round).  Velocities are exact multiples   *)
(* of 1/3600 and fallTime is a whole number of fixed steps.                *)
(***************************************************************************)
EXTENDS Integers, Sequences, FiniteSets, TLC

\* fixedDelta = 1/60: one step is 1/60 s, a velocity unit is 1/60^2, a
\* position unit is 1/60^3.
StepsPerSecond == 60
VelUnit == StepsPerSecond * StepsPerSecond
D == StepsPerSecond * StepsPerSecond * StepsPerSecond

\* Number of binary digits of a double's significand after the leading one,
\* plus one: the residue unit is 2^-MantBits / D.
MantBits == 53

---------------------------------------------------------------------------
(* Doubles *)

Num(n, r) == [n |-> n, r |-> r]
Whole(k) == Num(k * D, 0)
Zero == Num(0, 0)

Neg(a) == Num(-a.n, -a.r)
Plus(a, b) == Num(a.n + b.n, a.r + b.r)
Minus(a, b) == Num(a.n - b.n, a.r - b.r)

\* Order of the values: the residue only decides between equal decimal parts.
Lt(a, b) == a.n < b.n \/ (a.n = b.n /\ a.r < b.r)
Le(a, b) == a.n < b.n \/ (a.n = b.n /\ a.r <= b.r)
Gt(a, b) == Lt(b, a)
Ge(a, b) == Le(b, a)
MinNum(a, b) == IF Le(a, b) THEN a ELSE b
MaxNum(a, b) == IF Ge(a, b) THEN a ELSE b
AbsNum(a) == IF Lt(a, Zero) THEN Neg(a) ELSE a

\* The largest D * 2^e not above the positive value a (0 when it is not a
\* whole number of position units: such small values are kept exact).
RECURSIVE PowUp(_, _)
PowUp(p, n) == IF 2 * p <= n THEN PowUp(2 * p, n) ELSE p
RECURSIVE PowDown(_, _)
PowDown(p, n) ==
    IF p <= n THEN p
    ELSE IF p % 2 = 0 THEN PowDown(p \div 2, n) ELSE 0
PowBelowOf(a, p) ==
    IF p = a.n /\ a.r < 0
    THEN (IF p % 2 = 0 THEN p \div 2 ELSE 0)
    ELSE p
PowBelow(a) ==
    PowBelowOf(a, IF a.n >= D THEN PowUp(D, a.n) ELSE PowDown(D, a.n))

\* (n * 2^k) modulo m, by repeated multiplication by 2^7 while m < 2^24, by
\* 2^5 while m < 2^26 (values from 32 to 64) and by 2 beyond (m < 2^30).
RECURSIVE MulPow2Mod(_, _, _)
MulPow2Mod(n, k, m) ==
    IF k = 0 THEN n % m
    ELSE IF k >= 7 /\ m < 16777216
         THEN (128 * MulPow2Mod(n, k - 7, m)) % m
         ELSE IF k >= 5 /\ m < 67108864
              THEN (32 * MulPow2Mod(n, k - 5, m)) % m
              ELSE (2 * MulPow2Mod(n, k - 1, m)) % m

\* Round a positive value to the nearest double, ties to even.  The doubles
\* in [2^e, 2^(e+1)) are the multiples of 2^(e-52), that is of g = 2 * p
\* residue units where p = D * 2^e.  low is the distance from the multiple
\* of g below a, odd tells whether that multiple is an odd one.
Nearest(a, g, low, odd) ==
    IF low = 0 THEN a
    ELSE IF 2 * low < g \/ (2 * low = g /\ ~odd)
         THEN Num(a.n, a.r - low)
         ELSE Num(a.n, a.r + (g - low))
RoundOnGrid(a, g, t) == Nearest(a, g, t % g, t >= g)
RoundIn(a, p) ==
    IF p = 0 THEN a
    ELSE RoundOnGrid(a, 2 * p,
                     (MulPow2Mod(a.n, MantBits, 4 * p) + a.r) % (4 * p))
RoundPos(a) == RoundIn(a, PowBelow(a))

Round(a) ==
    IF a.n = 0 THEN a
    ELSE IF a.n < 0 THEN Neg(RoundPos(Neg(a)))
    ELSE RoundPos(a)

\* The double written as the decimal literal n/D, and float + and -.
Lit(n) == Round(Num(n, 0))
FAdd(a, b) == Round(Plus(a, b))
FSub(a, b) == Round(Minus(a, b))
\* Halving a double is exact.
Half(a) == Num(a.n \div 2, a.r \div 2)

---------------------------------------------------------------------------
(* Bounds of the model *)

\* generateTerrain's square is x, z in -HalfSize .. HalfSize-1 (size/2 = 24
\* in the source).
HalfSize == 1
\* At most this many columns of one terrain grow a tree.
MaxTrees == 1
\* World operations (addBlock / removeBlock) in one run of SpecWorld.
MaxOps == 2

\* Maximum terrain height (generateTerrain's local constant).
height == 8
\* The noise source returns k / NoiseScale for an integer k.
NoiseScale == 8

MinInt(a, b) == IF a <= b THEN a ELSE b
MaxInt(a, b) == IF a >= b THEN a ELSE b

\* null as a slot type, and null as a reference to a mesh.
Null == "null"
NullMesh == 0
Types == {"grass", "dirt", "stone", "wood", "leaves"}

VARIABLES
    blocks,        \* world.blocks.children: sequence of block meshes
    nextId,        \* identity of the next mesh object created by addBlock
    position,      \* player.position
    velocity,      \* player.velocity
    onGround,      \* player.onGround
    fallTime,      \* player.fallTime, in fixed steps
    inventory,     \* player.inventory: 9 slots [type, count]
    selectedSlot,  \* player.selectedSlot, 0-based
    camera,        \* player.camera.position
    spawn,         \* last value returned by findSafeSpawnPosition
    last,          \* the last operation performed and its arguments
    ticks,         \* updates counted by a specification with a tick budget
    ops,           \* number of input / world operations so far
    clock,         \* performance.now() at the latest call of Game.animate
    lastFrameTime  \* game.lastFrameTime

vars == <<blocks, nextId, position, velocity, onGround, fallTime, inventory,
          selectedSlot, camera, spawn, last, ticks, ops, clock, lastFrameTime>>
worldVars == <<blocks, nextId>>
playerVars == <<position, velocity, onGround, fallTime, camera>>
invVars == <<inventory, selectedSlot>>
timeVars == <<clock, lastFrameTime>>

---------------------------------------------------------------------------
(* World: world.js *)

Cell(x, y, z, type) == [x |-> x, y |-> y, z |-> z, type |-> type]
Mesh(id, c) == [id |-> id, x |-> c.x, y |-> c.y, z |-> c.z, type |-> c.type]

\* addBlock as an insert-or-overwrite: a mesh already at the position is
\* replaced by the new one.
addBlockOverwrite(bs, id, c) ==
    Append(SelectSeq(bs, LAMBDA b : ~(b.x = c.x /\ b.y = c.y /\ b.z = c.z)),
           Mesh(id, c))

\* new THREE.Mesh(...); block.position.copy(position); this.blocks.add(block)
addBlock(bs, id, c) == Append(bs, Mesh(id, c))

\* block.parent === this.blocks
IsChild(bs, h) == \E i \in 1..Len(bs) : bs[i].id = h

\* removeBlock without the parent test: children.splice(indexOf(block), 1)
\* with indexOf = -1 for an absent block removes the last child.
removeBlockSplice(bs, h) ==
    IF h # NullMesh /\ IsChild(bs, h)
    THEN SelectSeq(bs, LAMBDA b : b.id # h)
    ELSE IF Len(bs) = 0 THEN bs ELSE SubSeq(bs, 1, Len(bs) - 1)

\* if (block && block.parent === this.blocks) this.blocks.remove(block)
removeBlock(bs, h) ==
    IF h # NullMesh /\ IsChild(bs, h)
    THEN SelectSeq(bs, LAMBDA b : b.id # h)
    ELSE bs

\* addBlock for each cell of a sequence, in order: the meshes are appended
\* with consecutive identities.
AddAll(bs, id, cells) ==
    bs \o [i \in 1..Len(cells) |-> Mesh(id + i - 1, cells[i])]

\* The leaf offsets without the corner test: a full 5 x 4 x 5 box.
LeafOffsetsAll ==
    [i \in 1..100 |->
       [lx |-> -2 + ((i - 1) \div 20),
        ly |-> -1 + (((i - 1) \div 5) % 4),
        lz |-> -2 + ((i - 1) % 5)]]

\* The leaf offsets in loop order lx, ly, lz; corners skipped.
LeafOffsets ==
    LET all == [i \in 1..100 |->
                  [lx |-> -2 + ((i - 1) \div 20),
                   ly |-> -1 + (((i - 1) \div 5) % 4),
                   lz |-> -2 + ((i - 1) % 5)]]
        Abs(k) == IF k < 0 THEN -k ELSE k
    IN  SelectSeq(all, LAMBDA o : ~(Abs(o.lx) = 2 /\ Abs(o.lz) = 2))

\* The cells generateTree(x, y, z) adds when Math.random() gives treeHeight.
TreeHeights == {4, 5, 6}
generateTree(x, y, z, treeHeight) ==
    [i \in 1..treeHeight |-> Cell(x, y + i - 1, z, "wood")]
    \o [i \in 1..Len(LeafOffsets) |->
          Cell(x + LeafOffsets[i].lx, y + treeHeight + LeafOffsets[i].ly,
               z + LeafOffsets[i].lz, "leaves")]

\* Math.floor((noise + 1) * height / 2) for noise = nv / NoiseScale.
Elevation(nv) == ((nv + NoiseScale) * height) \div (2 * NoiseScale)

\* The material rule with dirt reaching one layer deeper (>= for >).
MaterialDeepDirt(y, elevation) ==
    IF y = elevation THEN "grass"
    ELSE IF y >= elevation - 3 THEN "dirt"
    ELSE "stone"

Material(y, elevation) ==
    IF y = elevation THEN "grass"
    ELSE IF y > elevation - 3 THEN "dirt"
    ELSE "stone"

ColumnCells(x, z, elevation) ==
    [i \in 1..(elevation + 1) |-> Cell(x, i - 1, z, Material(i - 1, elevation))]

\* Columns in loop order: x outer, z inner.
Size == 2 * HalfSize
Columns == [k \in 1..(Size * Size) |->
              [x |-> -HalfSize + ((k - 1) \div Size),
               z |-> -HalfSize + ((k - 1) % Size)]]

\* The cells generateTerrain adds, for a noise function noise[k] over the
\* columns and tree[k] = 0 (Math.random() >= 0.01) or a tree height.
RECURSIVE TerrainFrom(_, _, _)
TerrainFrom(k, noise, tree) ==
    IF k > Len(Columns) THEN <<>>
    ELSE LET c == Columns[k]
             e == Elevation(noise[k])
         IN  ColumnCells(c.x, c.z, e)
             \o (IF tree[k] = 0 THEN <<>>
                 ELSE generateTree(c.x, e + 1, c.z, tree[k]))
             \o TerrainFrom(k + 1, noise, tree)

generateTerrain(noise, tree) == AddAll(<<>>, 1, TerrainFrom(1, noise, tree))

\* Noise fields: planes base + dx * x + dz * z clamped to [-1, 1], sampled
\* at the columns, in units of 1 / NoiseScale.
Clamp(v) == IF v < -NoiseScale THEN -NoiseScale
            ELSE IF v > NoiseScale THEN NoiseScale ELSE v
Planes == { <<-NoiseScale, 0, 0>>, <<-3, 3, -2>>, <<NoiseScale, 0, 0>> }
NoiseFields ==
    { [k \in 1..Len(Columns) |->
         Clamp(p[1] + p[2] * Columns[k].x + p[3] * Columns[k].z)] : p \in Planes }
\* Outcomes of Math.random(): below 0.01 at no more than MaxTrees columns,
\* taken among the two columns nearest the centre of the diagonal.
NoTree == [k \in 1..Len(Columns) |-> 0]
TreeSites ==
    { k \in 1..Len(Columns) :
        Columns[k].x = Columns[k].z /\ Columns[k].x \in {-1, 0} }
RECURSIVE TreesUpTo(_)
TreesUpTo(m) ==
    IF m = 0 THEN {NoTree}
    ELSE LET prev == TreesUpTo(m - 1)
         IN  prev \cup
             { [t EXCEPT ![k] = h] :
                 t \in prev, k \in TreeSites, h \in TreeHeights }
TreeChoices == TreesUpTo(MaxTrees)

\* highestY taken over the terrain and trunk blocks only: leaves in the
\* column are not counted.
HighestYSolid(bs) ==
    LET ys == {0} \cup { bs[i].y : i \in { j \in 1..Len(bs) :
                                            /\ bs[j].x = 0 /\ bs[j].z = 0
                                            /\ bs[j].type # "leaves" } }
    IN  CHOOSE m \in ys : \A y \in ys : y <= m
\* findSafeSpawnPosition: highestY starts at 0 and takes Math.max with the y
\* of every block of the column x = 0, z = 0.
HighestY(bs) ==
    LET ys == {0} \cup { bs[i].y : i \in { j \in 1..Len(bs) :
                                            bs[j].x = 0 /\ bs[j].z = 0 } }
    IN  CHOOSE m \in ys : \A y \in ys : y <= m
\* findSafeSpawnPosition returning highestY + 1: one unit too low.
findSafeSpawnPositionLow(bs) == [x |-> 0, y |-> HighestY(bs) + 1, z |-> 0]
findSafeSpawnPosition(bs) == [x |-> 0, y |-> HighestY(bs) + 2, z |-> 0]

---------------------------------------------------------------------------
(* Player: player.js *)

\* Movement parameters, in velocity units per second (x VelUnit).
walkSpeed == 7 * VelUnit
sprintSpeed == (91 * VelUnit) \div 10
jumpForce == (85 * VelUnit) \div 10
\* Gravity parameters times fixedDelta, in velocity units per step.
baseGravity == 25 * StepsPerSecond
maxGravity == 35 * StepsPerSecond
gravityAcceleration == 14

\* Player dimensions: the doubles 1.2 and 0.6, and their halves.
playerHeight == Lit((12 * D) \div 10)
playerWidth == Lit((6 * D) \div 10)
HalfHeight == Half(playerHeight)
HalfWidth == Half(playerWidth)
\* The literal 0.1 of handleCollisions.
Tenth == Lit(D \div 10)

Vec(x, y, z) == [x |-> x, y |-> y, z |-> z]
WholeVec(p) == Vec(Whole(p.x), Whole(p.y), Whole(p.z))

\* new THREE.Box3().setFromCenterAndSize(center, (width, height, width))
PlayerBox(c) ==
    [min |-> Vec(FSub(c.x, HalfWidth), FSub(c.y, HalfHeight), FSub(c.z, HalfWidth)),
     max |-> Vec(FAdd(c.x, HalfWidth), FAdd(c.y, HalfHeight), FAdd(c.z, HalfWidth))]

\* The box of a unit cube centred at integer coordinates: centre -+ 0.5.
HalfBelow(k) == Num(k * D - (D \div 2), 0)
HalfAbove(k) == Num(k * D + (D \div 2), 0)
UnitBox(b) ==
    [min |-> Vec(HalfBelow(b.x), HalfBelow(b.y), HalfBelow(b.z)),
     max |-> Vec(HalfAbove(b.x), HalfAbove(b.y), HalfAbove(b.z))]

\* THREE.Box3.intersectsBox
intersectsBox(a, b) ==
    ~(  Lt(b.max.x, a.min.x) \/ Gt(b.min.x, a.max.x)
     \/ Lt(b.max.y, a.min.y) \/ Gt(b.min.y, a.max.y)
     \/ Lt(b.max.z, a.min.z) \/ Gt(b.min.z, a.max.z))

\* The first of the two distances only: the depth measured from the block's
\* lower face.
PenetrationFromMin(pmax, bmin, pmin, bmax) == AbsNum(FSub(pmax, bmin))
Penetration(pmax, bmin, pmin, bmax) ==
    MinNum(AbsNum(FSub(pmax, bmin)), AbsNum(FSub(pmin, bmax)))

\* highestBlockY: -Infinity or an integer.
NegInfinity == [inf |-> TRUE, v |-> 0]
Finite(v) == [inf |-> FALSE, v |-> v]
MaxHigh(h, v) == IF h.inf THEN Finite(v) ELSE Finite(MaxInt(h.v, v))

\* Variants of the loop body that differ from it in one branch: "sliding"
\* keeps the velocity on the axis of a horizontal push, "sticky" clears
\* velocity.y at a ceiling whatever its sign, "eager" snaps onto a block's
\* top while the avatar rises.
CollideBlockVariant(s, block, playerBox, variant) ==
    LET blockBox == UnitBox(block)
        penetrationX == Penetration(playerBox.max.x, blockBox.min.x,
                                    playerBox.min.x, blockBox.max.x)
        penetrationY == Penetration(playerBox.max.y, blockBox.min.y,
                                    playerBox.min.y, blockBox.max.y)
        penetrationZ == Penetration(playerBox.max.z, blockBox.min.z,
                                    playerBox.min.z, blockBox.max.z)
        minPenetration == MinNum(MinNum(penetrationX, penetrationY), penetrationZ)
    IN  IF ~intersectsBox(playerBox, blockBox) THEN s
        ELSE IF minPenetration = penetrationY THEN
            IF Gt(s.position.y, Whole(block.y)) THEN
                IF (s.velocity.y <= 0 \/ variant = "eager")
                   /\ Lt(FSub(s.position.y, FAdd(blockBox.max.y, HalfHeight)), Tenth)
                THEN [s EXCEPT !.position.y = FAdd(blockBox.max.y, HalfHeight),
                               !.velocity.y = 0,
                               !.highestBlockY = MaxHigh(s.highestBlockY, block.y + 1),
                               !.onGround = TRUE]
                ELSE s
            ELSE [s EXCEPT !.position.y = FSub(blockBox.min.y, HalfHeight),
                           !.velocity.y = IF variant = "sticky" THEN 0
                                          ELSE MinInt(0, s.velocity.y)]
        ELSE IF minPenetration = penetrationX THEN
            [s EXCEPT !.position.x =
                         IF Gt(s.position.x, Whole(block.x))
                         THEN FAdd(blockBox.max.x, HalfWidth)
                         ELSE FSub(blockBox.min.x, HalfWidth),
                      !.velocity.x = IF variant = "sliding" THEN s.velocity.x ELSE 0]
        ELSE IF minPenetration = penetrationZ THEN
            [s EXCEPT !.position.z =
                         IF Gt(s.position.z, Whole(block.z))
                         THEN FAdd(blockBox.max.z, HalfWidth)
                         ELSE FSub(blockBox.min.z, HalfWidth),
                      !.velocity.z = IF variant = "sliding" THEN s.velocity.z ELSE 0]
        ELSE s
CollideBlockSliding(s, block, playerBox) ==
    CollideBlockVariant(s, block, playerBox, "sliding")
CollideBlockSticky(s, block, playerBox) ==
    CollideBlockVariant(s, block, playerBox, "sticky")
CollideBlockEager(s, block, playerBox) ==
    CollideBlockVariant(s, block, playerBox, "eager")

\* The body of handleCollisions' loop for one block.  s holds position,
\* velocity, onGround and highestBlockY; playerBox is the box computed
\* before the loop.
CollideBlock(s, block, playerBox) ==
    LET blockBox == UnitBox(block)
        penetrationX == Penetration(playerBox.max.x, blockBox.min.x,
                                    playerBox.min.x, blockBox.max.x)
        penetrationY == Penetration(playerBox.max.y, blockBox.min.y,
                                    playerBox.min.y, blockBox.max.y)
        penetrationZ == Penetration(playerBox.max.z, blockBox.min.z,
                                    playerBox.min.z, blockBox.max.z)
        minPenetration == MinNum(MinNum(penetrationX, penetrationY), penetrationZ)
    IN  IF ~intersectsBox(playerBox, blockBox) THEN s
        ELSE IF minPenetration = penetrationY THEN
            IF Gt(s.position.y, Whole(block.y)) THEN
                IF s.velocity.y <= 0
                   /\ Lt(FSub(s.position.y, FAdd(blockBox.max.y, HalfHeight)), Tenth)
                THEN [s EXCEPT !.position.y = FAdd(blockBox.max.y, HalfHeight),
                               !.velocity.y = 0,
                               !.highestBlockY = MaxHigh(s.highestBlockY, block.y + 1),
                               !.onGround = TRUE]
                ELSE s
            ELSE [s EXCEPT !.position.y = FSub(blockBox.min.y, HalfHeight),
                           !.velocity.y = MinInt(0, s.velocity.y)]
        ELSE IF minPenetration = penetrationX THEN
            [s EXCEPT !.position.x =
                         IF Gt(s.position.x, Whole(block.x))
                         THEN FAdd(blockBox.max.x, HalfWidth)
                         ELSE FSub(blockBox.min.x, HalfWidth),
                      !.velocity.x = 0]
        ELSE IF minPenetration = penetrationZ THEN
            [s EXCEPT !.position.z =
                         IF Gt(s.position.z, Whole(block.z))
                         THEN FAdd(blockBox.max.z, HalfWidth)
                         ELSE FSub(blockBox.min.z, HalfWidth),
                      !.velocity.z = 0]
        ELSE s

\* The loop over world.blocks.children, in order.  A block whose box does
\* not intersect playerBox leaves s unchanged, so only the others are
\* visited.
RECURSIVE CollideFrom(_, _, _, _)
CollideFrom(s, bs, i, playerBox) ==
    IF i > Len(bs) THEN s
    ELSE CollideFrom(CollideBlock(s, bs[i], playerBox), bs, i + 1, playerBox)
Colliding(bs, playerBox) ==
    SelectSeq(bs, LAMBDA b : intersectsBox(playerBox, UnitBox(b)))

\* The end of handleCollisions without the test after the loop.
GroundStateKept(s) ==
    [position |-> s.position, velocity |-> s.velocity, onGround |-> s.onGround]

\* The test after the loop: not grounded when position.y is more than 0.1
\* above highestBlockY.
GroundState(s) ==
    [position |-> s.position, velocity |-> s.velocity,
     onGround |-> IF s.highestBlockY.inf
                     \/ Gt(s.position.y, FAdd(Whole(s.highestBlockY.v), Tenth))
                  THEN FALSE ELSE s.onGround]
CollideAll(s0, bs, playerBox) ==
    GroundState(CollideFrom(s0, Colliding(bs, playerBox), 1, playerBox))

\* handleCollisions: p holds position, velocity and onGround.
handleCollisions(p, bs) ==
    CollideAll([position |-> p.position, velocity |-> p.velocity,
                onGround |-> p.onGround, highestBlockY |-> NegInfinity],
               bs, PlayerBox(p.position))

\* currentGravity without the Math.min against maxGravity.
CurrentGravityUnclamped(ft) == baseGravity + ft * gravityAcceleration

\* currentGravity * fixedDelta after fallTime steps of falling.
CurrentGravity(ft) == MinInt(baseGravity + ft * gravityAcceleration, maxGravity)

\* The gravity step with fallTime restarted from 0 while the avatar rises.
ApplyGravityRestart(p) ==
    IF ~p.onGround
    THEN [p EXCEPT !.fallTime = IF p.velocity.y > 0 THEN 0 ELSE p.fallTime + 1,
                   !.velocity.y = p.velocity.y
                                  - CurrentGravity(IF p.velocity.y > 0 THEN 0
                                                   ELSE p.fallTime + 1)]
    ELSE [p EXCEPT !.fallTime = 0]

\* Player.update, first part: gravity while airborne, else fallTime = 0.
ApplyGravity(p) ==
    IF ~p.onGround
    THEN [p EXCEPT !.fallTime = p.fallTime + 1,
                   !.velocity.y = p.velocity.y - CurrentGravity(p.fallTime + 1)]
    ELSE [p EXCEPT !.fallTime = 0]
\* position += velocity * fixedDelta
Integrate(p) ==
    [p EXCEPT !.position = Vec(FAdd(p.position.x, Num(p.velocity.x, 0)),
                               FAdd(p.position.y, Num(p.velocity.y, 0)),
                               FAdd(p.position.z, Num(p.velocity.z, 0)))]
AfterCollisions(p, c) ==
    [position |-> c.position, velocity |-> c.velocity,
     onGround |-> c.onGround, fallTime |-> p.fallTime]
Collide(p, bs) == AfterCollisions(p, handleCollisions(p, bs))

\* update with a variable time step: gravity and the position change are
\* scaled by delta (in fixed steps) instead of fixedDelta.
updateVariableStep(delta, p, bs) ==
    Collide([p EXCEPT
               !.fallTime = IF p.onGround THEN 0 ELSE p.fallTime + delta,
               !.velocity.y = IF p.onGround THEN p.velocity.y
                              ELSE p.velocity.y
                                   - delta * CurrentGravity(p.fallTime + delta),
               !.position =
                   Vec(FAdd(p.position.x, Num(delta * p.velocity.x, 0)),
                       FAdd(p.position.y,
                            Num(delta * (IF p.onGround THEN p.velocity.y
                                         ELSE p.velocity.y
                                              - delta * CurrentGravity(p.fallTime + delta)),
                                0)),
                       FAdd(p.position.z, Num(delta * p.velocity.z, 0)))],
            bs)

\* Player.update(delta): the next [position, velocity, onGround, fallTime].
\* delta, in fixed steps, is not read: every call advances by fixedDelta.
update(delta, p, bs) == Collide(Integrate(ApplyGravity(p)), bs)

\* The delta Game.animate passes: frameInterval / 1000 = 1/60 s, one step.
FrameDelta == 1

\* jump without the onGround test.
jumpAnywhere(p) == [p EXCEPT !.velocity.y = jumpForce, !.onGround = FALSE]

\* Player.jump()
jump(p) ==
    IF p.onGround
    THEN [p EXCEPT !.velocity.y = jumpForce, !.onGround = FALSE]
    ELSE p

\* Player.move(direction, isSprinting) with the camera looking along -z:
\* forward = (0, 0, -1), right = (1, 0, 0).  direction has at most one
\* non-zero component, so the normalised move vector is a unit axis vector
\* (or zero, and the horizontal velocity is cleared).
move(p, direction, isSprinting) ==
    LET speed == IF isSprinting THEN sprintSpeed ELSE walkSpeed
    IN  [p EXCEPT !.velocity.x = direction.x * speed,
                  !.velocity.z = -direction.z * speed]

\* camera.position after update: the position, one unit higher.
EyeLevel(pos) == [pos EXCEPT !.y = FAdd(pos.y, Whole(1))]

Player == [position |-> position, velocity |-> velocity,
           onGround |-> onGround, fallTime |-> fallTime]

\* Player.constructor: an empty inventory of 9 slots, slot 0 selected.
EmptySlot == [type |-> Null, count |-> 0]
Slots == 9
EmptyInventory == [i \in 1..Slots |-> EmptySlot]

Op(name) == [op |-> name]

\* setSelectedSlot without the range test.
setSelectedSlotAny(sel, slot) == slot

\* setSelectedSlot(slot)
setSelectedSlot(sel, slot) == IF slot >= 0 /\ slot < Slots THEN slot ELSE sel

\* inventory.findIndex(item => item.type === blockType || item.type === null):
\* the 0-based index of the first such slot, -1 when there is none.
RECURSIVE FindIndexFrom(_, _, _)
FindIndexFrom(inv, i, blockType) ==
    IF i > Len(inv) THEN -1
    ELSE IF inv[i].type = blockType \/ inv[i].type = Null THEN i - 1
    ELSE FindIndexFrom(inv, i + 1, blockType)

\* addToInventory(blockType)
addToInventory(inv, sel, blockType) ==
    LET found == FindIndexFrom(inv, 1, blockType)
        slot == IF found = -1 THEN sel ELSE found
    IN  IF inv[slot + 1].type = Null
        THEN [inv EXCEPT ![slot + 1] = [type |-> blockType, count |-> 1]]
        ELSE [inv EXCEPT ![slot + 1].count = @ + 1]

\* removeFromInventory without the reset at zero: the slot keeps its type
\* with a count of 0.
removeFromInventoryKeepType(inv, sel) ==
    IF inv[sel + 1].type # Null
    THEN [inv EXCEPT ![sel + 1].count = @ - 1]
    ELSE inv

\* removeFromInventory()
removeFromInventory(inv, sel) ==
    LET slot == inv[sel + 1]
    IN  IF slot.type # Null
        THEN IF slot.count - 1 <= 0
             THEN [inv EXCEPT ![sel + 1] = EmptySlot]
             ELSE [inv EXCEPT ![sel + 1].count = @ - 1]
        ELSE inv

\* getSelectedBlockType()
getSelectedBlockType(inv, sel) == inv[sel + 1].type

---------------------------------------------------------------------------
(* SpecWorld: the world after construction (generateTerrain), then the      *)
(* World methods called on it.                                             *)

\* Cells the world operations of SpecWorld are tried on: in the centre
\* column at, above and below the lowest terrain layer, and beside it.
TestCells ==
    { Cell(0, -1, 0, "grass"), Cell(0, 0, 0, "grass"),
      Cell(0, 1, 0, "stone"), Cell(-1, 0, 0, "grass") }

SamePlace(b, c) == b.x = c.x /\ b.y = c.y /\ b.z = c.z
Ids(bs) == { bs[i].id : i \in 1..Len(bs) }
\* Handles removeBlock is tried on: the meshes on the test cells, meshes
\* removed earlier, a mesh never added (-1), and null.
Handles(bs, next) ==
    { bs[i].id : i \in { j \in 1..Len(bs) : \E c \in TestCells : SamePlace(bs[j], c) } }
    \cup ((1..(next - 1)) \ Ids(bs))
    \cup { -1, NullMesh }

\* Game.constructor: the player is put at findSafeSpawnPosition().
InitPlayerAt(sp) ==
    /\ spawn = sp
    /\ position = WholeVec(sp)
    /\ camera = WholeVec(sp)
    /\ velocity = Vec(0, 0, 0)
    /\ onGround = FALSE
    /\ fallTime = 0
    /\ inventory = EmptyInventory
    /\ selectedSlot = 0
    /\ ticks = 0
    /\ clock = 0
    /\ lastFrameTime = 0
    /\ ops = 0

InitWorld ==
    /\ \E noise \in NoiseFields, tree \in TreeChoices :
          blocks = generateTerrain(noise, tree)
    /\ nextId = Len(blocks) + 1
    /\ InitPlayerAt(findSafeSpawnPosition(blocks))
    /\ last = Op("init")

WorldAddBlock ==
    /\ ops < MaxOps
    /\ \E c \in TestCells :
          /\ blocks' = addBlock(blocks, nextId, c)
          /\ last' = [op |-> "addBlock", cell |-> c]
    /\ nextId' = nextId + 1
    /\ ops' = ops + 1
    /\ UNCHANGED <<playerVars, invVars, spawn, ticks, timeVars>>

WorldRemoveBlock ==
    /\ ops < MaxOps
    /\ \E h \in Handles(blocks, nextId) :
          /\ blocks' = removeBlock(blocks, h)
          /\ last' = [op |-> "removeBlock", h |-> h,
                      wasChild |-> h # NullMesh /\ IsChild(blocks, h)]
    /\ ops' = ops + 1
    /\ UNCHANGED <<nextId, playerVars, invVars, spawn, ticks, timeVars>>

\* addBlock(c) followed by removeBlock of the mesh just added.
WorldRoundTrip ==
    /\ ops < MaxOps
    /\ \E c \in TestCells :
          /\ blocks' = removeBlock(addBlock(blocks, nextId, c), nextId)
          /\ last' = [op |-> "roundTrip", cell |-> c,
                      occupied |-> \E i \in 1..Len(blocks) : SamePlace(blocks[i], c)]
    /\ nextId' = nextId + 1
    /\ ops' = ops + 1
    /\ UNCHANGED <<playerVars, invVars, spawn, ticks, timeVars>>

WorldFindSpawn ==
    /\ spawn' = findSafeSpawnPosition(blocks)
    /\ last' = Op("findSafeSpawnPosition")
    /\ UNCHANGED <<worldVars, playerVars, invVars, ticks, timeVars, ops>>

NextWorld ==
    \/ WorldAddBlock
    \/ WorldRemoveBlock
    \/ WorldRoundTrip
    \/ WorldFindSpawn
SpecWorld == InitWorld /\ [][NextWorld]_vars

---------------------------------------------------------------------------
(* Claims on the world API, checked under SpecWorld.                        *)

\* The positions occupied in bs, with the type of each mesh there.
Occupied(bs) == { <<bs[i].x, bs[i].y, bs[i].z, bs[i].type>> : i \in 1..Len(bs) }
\* The y coordinates of the meshes of the column x = 0, z = 0.
CentreYs(bs) ==
    { bs[i].y : i \in { j \in 1..Len(bs) : bs[j].x = 0 /\ bs[j].z = 0 } }

\* C7: block positions are unique: after terrain and tree generation and any
\* addBlock / removeBlock calls no two blocks occupy the same grid position
\* (addBlock at an occupied position would overwrite).
C7_UniquePositions ==
    \A i, j \in 1..Len(blocks) : SamePlace(blocks[i], blocks[j]) => i = j

\* C8: addBlock(p, grass) followed by removeBlock of the block just added
\* leaves the occupied positions, and the type at each, as they were; the
\* block collection itself is as it was.
C8_RoundTrip ==
    [][last'.op = "roundTrip" =>
          /\ Occupied(blocks') = Occupied(blocks)
          /\ blocks' = blocks]_vars
\* A round trip was made on a position that held a block.
C8_Witness ==
    /\ last.op = "roundTrip"
    /\ last.occupied
    /\ last.cell.type = "grass"

\* C9: removeBlock of a block that is not in the world (never added,
\* already removed, or null) leaves the block collection unchanged, and
\* removing a block a second time changes nothing more.
C9_RemoveAbsent ==
    [][last'.op = "removeBlock" =>
          /\ (last'.h \notin Ids(blocks) => blocks' = blocks)
          /\ (last'.h \in Ids(blocks) =>
                 /\ Ids(blocks') = Ids(blocks) \ {last'.h}
                 /\ removeBlock(blocks', last'.h) = blocks')]_vars
\* removeBlock was called with a block removed earlier.
C9_Witness ==
    /\ last.op = "removeBlock"
    /\ ~last.wasChild
    /\ last.h \in 1..(nextId - 1)
    /\ Len(blocks) > 0

\* C10 as stated: findSafeSpawnPosition returns (0, h + 2, 0) for h the
\* maximum y among the blocks of the column x = 0, z = 0, and (0, 2, 0) when
\* the column holds no block.
C10_SpawnTwoAboveHighest ==
    last.op \in {"init", "findSafeSpawnPosition"} =>
        /\ spawn.x = 0 /\ spawn.z = 0
        /\ IF CentreYs(blocks) = {} THEN spawn.y = 2
           ELSE /\ spawn.y - 2 \in CentreYs(blocks)
                /\ \A y \in CentreYs(blocks) : y <= spawn.y - 2

\* C10 amended: findSafeSpawnPosition returns (0, max(0, h) + 2, 0): y is at
\* least 2 and at least 2 above every block of the column, and it is
\* exactly 2 or exactly 2 above a block of the column.
C10_SpawnAboveColumn ==
    last.op \in {"init", "findSafeSpawnPosition"} =>
        /\ spawn.x = 0 /\ spawn.z = 0
        /\ spawn.y >= 2
        /\ \A y \in CentreYs(blocks) : spawn.y >= y + 2
        /\ spawn.y = 2 \/ spawn.y - 2 \in CentreYs(blocks)
\* findSafeSpawnPosition was called on a column whose blocks all lie below
\* y = 0.
C10_Witness ==
    /\ last.op = "findSafeSpawnPosition"
    /\ CentreYs(blocks) # {}
    /\ \A y \in CentreYs(blocks) : y < 0

---------------------------------------------------------------------------
(* Block interaction: input.js *)

\* Reach of the break and place handlers (the literal 5), in blocks.
Reach == 5

AbsInt(k) == IF k < 0 THEN -k ELSE k

\* dx^2 + dy^2 + dz^2 <= (Reach * D)^2 for distances in position units,
\* computed in limbs of 1000 to stay within machine integers.  The
\* residues of the coordinates are below the resolution of this test.
Limb == 1000
WithinDistance(dx, dy, dz) ==
    LET ax == AbsInt(dx) \div Limb   bx == AbsInt(dx) % Limb
        ay == AbsInt(dy) \div Limb   by == AbsInt(dy) % Limb
        az == AbsInt(dz) \div Limb   bz == AbsInt(dz) % Limb
        hi0 == ax * ax + ay * ay + az * az
        mid == 2 * (ax * bx + ay * by + az * bz)
        lo0 == bx * bx + by * by + bz * bz
        lo1 == (mid % Limb) * Limb + lo0
        hi == hi0 + (mid \div Limb) + (lo1 \div (Limb * Limb))
        lo == lo1 % (Limb * Limb)
        r == (Reach * D) \div Limb
    IN  hi < r * r \/ (hi = r * r /\ lo = 0)

\* cell.distanceTo(player.position) <= 5 for a cell with integer coordinates
WithinReach(c, pos) ==
    WithinDistance(c.x * D - pos.x.n, c.y * D - pos.y.n, c.z * D - pos.z.n)

\* The first intersection of the camera ray with the blocks, as far as the
\* handlers use it: the mesh hit, the normal of the face hit and the point
\* hit (in quarters of a block).  The ray direction is the user's choice; a
\* face can be the first one hit only if the camera is in front of it and
\* no other block covers it (unless the camera is inside that block).
Normals == { Vec(1, 0, 0), Vec(-1, 0, 0), Vec(0, 1, 0),
             Vec(0, -1, 0), Vec(0, 0, 1), Vec(0, 0, -1) }
HitOffsets == {0, 2}
NoHit == [id |-> NullMesh]

InFront(lo, hi, nrm, c) ==
    IF nrm = 1 THEN Gt(c, hi) ELSE IF nrm = -1 THEN Lt(c, lo) ELSE TRUE
Facing(b, nrm, cam) ==
    LET box == UnitBox(b)
    IN  /\ InFront(box.min.x, box.max.x, nrm.x, cam.x)
        /\ InFront(box.min.y, box.max.y, nrm.y, cam.y)
        /\ InFront(box.min.z, box.max.z, nrm.z, cam.z)
Inside(box, c) ==
    /\ Gt(c.x, box.min.x) /\ Lt(c.x, box.max.x)
    /\ Gt(c.y, box.min.y) /\ Lt(c.y, box.max.y)
    /\ Gt(c.z, box.min.z) /\ Lt(c.z, box.max.z)
Exposed(bs, b, nrm, cam) ==
    \A i \in 1..Len(bs) :
        (bs[i].x = b.x + nrm.x /\ bs[i].y = b.y + nrm.y /\ bs[i].z = b.z + nrm.z)
            => Inside(UnitBox(bs[i]), cam)
HitPoint(b, nrm, ox, oy, oz) ==
    Vec(4 * b.x + (IF nrm.x # 0 THEN 2 * nrm.x ELSE ox),
        4 * b.y + (IF nrm.y # 0 THEN 2 * nrm.y ELSE oy),
        4 * b.z + (IF nrm.z # 0 THEN 2 * nrm.z ELSE oz))
Visible(bs, cam) ==
    { f \in (1..Len(bs)) \X Normals :
        Facing(bs[f[1]], f[2], cam) /\ Exposed(bs, bs[f[1]], f[2], cam) }
Raycasts(bs, cam) ==
    { [id |-> bs[f[1]].id, normal |-> f[2],
       point |-> HitPoint(bs[f[1]], f[2], ox, oy, oz)] :
        f \in Visible(bs, cam),
        ox \in HitOffsets, oy \in HitOffsets, oz \in HitOffsets }
    \cup { NoHit }

MeshOf(bs, h) == bs[CHOOSE i \in 1..Len(bs) : bs[i].id = h]

\* Math.floor of q/4 in place of Math.round.
MathFloor4(q) == q \div 4

\* Math.round of q/4
MathRound4(q) == (q + 2) \div 4

\* intersection.point.add(normal.multiplyScalar(0.5)), rounded per axis
PlacementCell(hit) ==
    Vec(MathRound4(hit.point.x + 2 * hit.normal.x),
        MathRound4(hit.point.y + 2 * hit.normal.y),
        MathRound4(hit.point.z + 2 * hit.normal.z))

\* handleBlockInteraction without the distance test.
handleBlockInteractionAnyDistance(bs, inv, sel, pos, hit) ==
    IF hit.id # NullMesh
    THEN [blocks |-> removeBlock(bs, hit.id),
          inventory |-> addToInventory(inv, sel, MeshOf(bs, hit.id).type)]
    ELSE [blocks |-> bs, inventory |-> inv]

\* handleBlockInteraction: the next [blocks, inventory]
handleBlockInteraction(bs, inv, sel, pos, hit) ==
    IF hit.id # NullMesh /\ WithinReach(MeshOf(bs, hit.id), pos)
    THEN [blocks |-> removeBlock(bs, hit.id),
          inventory |-> addToInventory(inv, sel, MeshOf(bs, hit.id).type)]
    ELSE [blocks |-> bs, inventory |-> inv]

\* handleBlockPlacement taking the block out of the inventory before the
\* distance and intersection tests.
handleBlockPlacementEager(bs, id, inv, sel, pos, hit) ==
    IF hit.id # NullMesh /\ getSelectedBlockType(inv, sel) # Null
    THEN IF WithinReach(PlacementCell(hit), pos)
            /\ ~intersectsBox(UnitBox(PlacementCell(hit)), PlayerBox(pos))
         THEN [blocks |-> addBlock(bs, id, Cell(PlacementCell(hit).x,
                                                PlacementCell(hit).y,
                                                PlacementCell(hit).z,
                                                getSelectedBlockType(inv, sel))),
               inventory |-> removeFromInventory(inv, sel)]
         ELSE [blocks |-> bs, inventory |-> removeFromInventory(inv, sel)]
    ELSE [blocks |-> bs, inventory |-> inv]

\* handleBlockPlacement: the next [blocks, inventory]; id is the identity
\* of the mesh addBlock creates.
handleBlockPlacement(bs, id, inv, sel, pos, hit) ==
    IF hit.id # NullMesh
       /\ WithinReach(PlacementCell(hit), pos)
       /\ ~intersectsBox(UnitBox(PlacementCell(hit)), PlayerBox(pos))
       /\ getSelectedBlockType(inv, sel) # Null
    THEN [blocks |-> addBlock(bs, id, Cell(PlacementCell(hit).x,
                                           PlacementCell(hit).y,
                                           PlacementCell(hit).z,
                                           getSelectedBlockType(inv, sel))),
          inventory |-> removeFromInventory(inv, sel)]
    ELSE [blocks |-> bs, inventory |-> inv]

---------------------------------------------------------------------------
(* SpecInteract: breaking and placing blocks.  The world is a row of floor  *)
(* blocks with a pillar near its far end; the avatar is at its spawn       *)
(* position above the first floor block or has landed on it.               *)

\* The floor is the row (0..RowLength, 0, 0).
RowLength == 6
\* Input operations in one run of SpecInteract.
MaxInputs == 2

FloorType(x) == IF x % 3 = 0 THEN "grass" ELSE IF x % 3 = 1 THEN "dirt" ELSE "stone"
InteractCells ==
    [i \in 1..(RowLength + 1) |-> Cell(i - 1, 0, 0, FloorType(i - 1))]
    \o << Cell(RowLength - 1, 1, 0, "wood"), Cell(RowLength - 1, 2, 0, "leaves") >>

\* The player after update calls without input, until it is on the ground
\* (at most k calls).
RECURSIVE Settle(_, _, _)
Settle(p, bs, k) ==
    IF k = 0 \/ p.onGround THEN p ELSE Settle(update(FrameDelta, p, bs), bs, k - 1)
SettleSteps == 40

\* Inventories at the start: empty; after a few blocks were broken and one
\* placed; and full of one type (each slot filled in turn while the slots
\* before it held another type, then emptied by placing and refilled).
\* SpecInventory reaches the latter two (DirtGapGrass, FullOfDirt).
Stack(t, n) == [type |-> t, count |-> n]
InitInventories ==
    { EmptyInventory,
      [i \in 1..Slots |-> IF i = 1 THEN Stack("dirt", 2)
                          ELSE IF i = 3 THEN Stack("grass", 1)
                          ELSE EmptySlot],
      [i \in 1..Slots |-> Stack("dirt", 1)] }

\* The player as the Game constructor leaves it at spawn position sp.
Spawned(sp) ==
    [position |-> WholeVec(sp), velocity |-> Vec(0, 0, 0),
     onGround |-> FALSE, fallTime |-> 0]
PlayerIs(p) ==
    /\ position = p.position
    /\ velocity = p.velocity
    /\ onGround = p.onGround
    /\ fallTime = p.fallTime

InitInteract ==
    /\ blocks = AddAll(<<>>, 1, InteractCells)
    /\ nextId = Len(blocks) + 1
    /\ spawn = findSafeSpawnPosition(blocks)
    /\ \/ PlayerIs(Spawned(spawn)) /\ camera = position
       \/ PlayerIs(Settle(Spawned(spawn), blocks, SettleSteps))
          /\ camera = EyeLevel(position)
    /\ inventory \in InitInventories
    /\ selectedSlot = 0
    /\ last = Op("init")
    /\ ticks = 0
    /\ clock = 0
    /\ lastFrameTime = 0
    /\ ops = 0

\* Left click or one-finger tap
Break ==
    /\ ops < MaxInputs
    /\ \E h \in { hit.id : hit \in Raycasts(blocks, camera) } :
          LET q == handleBlockInteraction(blocks, inventory, selectedSlot,
                                          position, [id |-> h])
          IN  /\ blocks' = q.blocks
              /\ inventory' = q.inventory
              /\ last' = [op |-> "break", id |-> h]
    /\ ops' = ops + 1
    /\ UNCHANGED <<nextId, playerVars, selectedSlot, spawn, ticks, timeVars>>

\* Right click or two-finger tap
Place ==
    /\ ops < MaxInputs
    /\ \E hit \in Raycasts(blocks, camera) :
          LET q == handleBlockPlacement(blocks, nextId, inventory, selectedSlot, position, hit)
          IN  /\ blocks' = q.blocks
              /\ inventory' = q.inventory
              /\ nextId' = IF q.blocks = blocks THEN nextId ELSE nextId + 1
              /\ last' = [op |-> "place", id |-> hit.id,
                          cell |-> IF hit.id = NullMesh THEN Vec(0, 0, 0)
                                   ELSE PlacementCell(hit),
                          at |-> IF hit.id = NullMesh THEN Vec(0, 0, 0)
                                 ELSE Vec(hit.point.x + 2 * hit.normal.x,
                                          hit.point.y + 2 * hit.normal.y,
                                          hit.point.z + 2 * hit.normal.z)]
    /\ ops' = ops + 1
    /\ UNCHANGED <<playerVars, selectedSlot, spawn, ticks, timeVars>>

\* Keys 1..9 call setSelectedSlot(0..8); the method accepts any number.
SlotInputs == {-1, 2, 8, 9}
SelectSlot ==
    /\ ops < MaxInputs
    /\ \E slot \in SlotInputs :
          /\ selectedSlot' = setSelectedSlot(selectedSlot, slot)
          /\ last' = [op |-> "setSelectedSlot", slot |-> slot]
    /\ ops' = ops + 1
    /\ UNCHANGED <<worldVars, playerVars, inventory, spawn, ticks, timeVars>>

NextInteract ==
    \/ Break
    \/ Place
    \/ SelectSlot
SpecInteract == InitInteract /\ [][NextInteract]_vars

---------------------------------------------------------------------------
(* Claims on breaking and placing, checked under SpecInteract.              *)

\* The squared distance, in tenths of a block, from a cell to a position
\* whose coordinates are whole tenths.
SquaredTenths(c, pos) ==
    LET t == D \div 10
        dx == 10 * c.x - (pos.x.n \div t)
        dy == 10 * c.y - (pos.y.n \div t)
        dz == 10 * c.z - (pos.z.n \div t)
    IN  dx * dx + dy * dy + dz * dz
WholeTenths(pos) ==
    LET t == D \div 10
    IN  pos.x.n % t = 0 /\ pos.y.n % t = 0 /\ pos.z.n % t = 0
Near(c, pos) == SquaredTenths(c, pos) <= (10 * Reach) * (10 * Reach)

\* The number of blocks of type t held in inv.
Held(inv, t) ==
    LET sum[i \in 0..Len(inv)] ==
            IF i = 0 THEN 0
            ELSE sum[i - 1] + (IF inv[i].type = t THEN inv[i].count ELSE 0)
    IN  sum[Len(inv)]

\* C3: a break never removes a block farther than 5 units from the avatar
\* position, removes the first block hit by the ray whenever it is at
\* distance <= 5, and removes no other block.
C3_ReachOnBreak ==
    [][last'.op = "break" =>
          LET removed == Ids(blocks) \ Ids(blocks')
          IN  /\ WholeTenths(position)
              /\ removed \subseteq {last'.id}
              /\ \A i \in 1..Len(blocks) :
                    /\ (blocks[i].id \in removed => Near(blocks[i], position))
                    /\ (blocks[i].id = last'.id /\ Near(blocks[i], position)
                          => blocks[i].id \in removed)
                    /\ (blocks[i].id \notin removed =>
                          \E j \in 1..Len(blocks') : blocks'[j] = blocks[i])
              /\ Len(blocks') = Len(blocks) - Cardinality(removed)]_vars
\* After one block was broken, a break aimed at a block farther than 5
\* units was refused.
C3_Witness ==
    /\ last.op = "break"
    /\ Len(blocks) = Len(InteractCells) - 1
    /\ \E i \in 1..Len(blocks) :
          blocks[i].id = last.id /\ ~Near(blocks[i], position)

\* C4: whenever a break removes a block of type T, the count held under T
\* grows by exactly 1 and no slot holding another type changes.
C4_BreakAddsOne ==
    [][(last'.op = "break" /\ blocks' # blocks) =>
          LET T == MeshOf(blocks, last'.id).type
          IN  /\ Held(inventory', T) = Held(inventory, T) + 1
              /\ \A i \in 1..Slots :
                    inventory[i].type \notin {T, Null}
                        => inventory'[i] = inventory[i]]_vars

\* C5: a placement whose ray hits nothing, whose cell is farther than 5
\* units, whose cell intersects the avatar's box, or whose selected slot is
\* empty, leaves the block collection and the inventory unchanged.
C5_RejectionAtomic ==
    [][(/\ last'.op = "place"
        /\ \/ last'.id = NullMesh
           \/ inventory[selectedSlot + 1].type = Null
           \/ ~Near(last'.cell, position)
           \/ intersectsBox(UnitBox(last'.cell), PlayerBox(position)))
          => blocks' = blocks /\ inventory' = inventory]_vars
\* A placement within reach, with a block selected, was refused because the
\* cell intersects the avatar.
C5_Witness ==
    /\ last.op = "place"
    /\ last.id # NullMesh
    /\ inventory[selectedSlot + 1].type # Null
    /\ Near(last.cell, position)
    /\ intersectsBox(UnitBox(last.cell), PlayerBox(position))
    /\ nextId = Len(InteractCells) + 1

\* C6: a placement whose cell is within reach and clear of the avatar, with
\* type T selected, adds exactly one block of type T at the cell, takes 1
\* from the selected slot (emptying it at 0) and changes nothing else.
C6_PlacementSuccess ==
    [][(/\ last'.op = "place"
        /\ last'.id # NullMesh
        /\ inventory[selectedSlot + 1].type # Null
        /\ Near(last'.cell, position)
        /\ ~intersectsBox(UnitBox(last'.cell), PlayerBox(position)))
          => LET T == inventory[selectedSlot + 1].type
                 n == inventory[selectedSlot + 1].count
                 b == blocks'[Len(blocks')]
             IN  /\ Len(blocks') = Len(blocks) + 1
                 /\ SubSeq(blocks', 1, Len(blocks)) = blocks
                 /\ SamePlace(b, last'.cell)
                 /\ b.type = T
                 /\ b.id \notin Ids(blocks)
                 /\ inventory'[selectedSlot + 1] =
                       IF n - 1 = 0 THEN EmptySlot ELSE Stack(T, n - 1)
                 /\ \A i \in 1..Slots :
                       i # selectedSlot + 1 => inventory'[i] = inventory[i]
                 /\ selectedSlot' = selectedSlot]_vars
\* A block was placed with the last block of the selected slot.
C6_Witness ==
    /\ last.op = "place"
    /\ last.id # NullMesh
    /\ \E i \in 1..Len(blocks) :
          blocks[i].id = nextId - 1 /\ SamePlace(blocks[i], last.cell)
    /\ nextId > Len(InteractCells) + 1
    /\ inventory[selectedSlot + 1] = EmptySlot

\* q/4 rounded as Math.round does (halves go up) is the integer c.
RoundsTo(q, c) == 4 * c - 2 <= q /\ q < 4 * c + 2
OnGrid(bs) ==
    \A i \in 1..Len(bs) : bs[i].x \in Int /\ bs[i].y \in Int /\ bs[i].z \in Int

---------------------------------------------------------------------------
(* SpecInventory: the inventory methods alone, from the empty inventory of *)
(* the constructor.  addToInventory is called with the type of a broken    *)
(* block, removeFromInventory after a placement, setSelectedSlot by the    *)
(* digit keys.  It shows which inventories play can produce.               *)

\* A slot holds at most MaxCount blocks in SpecInventory.
MaxCount == 1
\* The types of the blocks broken.
InventoryTypes == {"dirt", "grass"}

InitInventory ==
    /\ blocks = <<>>
    /\ nextId = 1
    /\ spawn = findSafeSpawnPosition(blocks)
    /\ PlayerIs(Spawned(spawn))
    /\ camera = position
    /\ inventory = EmptyInventory
    /\ selectedSlot = 0
    /\ last = Op("init")
    /\ ticks = 0
    /\ clock = 0
    /\ lastFrameTime = 0
    /\ ops = 0

InventoryAdd ==
    /\ \E t \in InventoryTypes :
          /\ inventory' = addToInventory(inventory, selectedSlot, t)
          /\ last' = [op |-> "addToInventory", type |-> t]
    /\ \A i \in 1..Slots : inventory'[i].count <= MaxCount
    /\ UNCHANGED <<worldVars, playerVars, selectedSlot, spawn, ticks, timeVars, ops>>

InventoryRemove ==
    /\ inventory' = removeFromInventory(inventory, selectedSlot)
    /\ last' = Op("removeFromInventory")
    /\ UNCHANGED <<worldVars, playerVars, selectedSlot, spawn, ticks, timeVars, ops>>

InventorySelect ==
    /\ \E slot \in -1..Slots :
          /\ selectedSlot' = setSelectedSlot(selectedSlot, slot)
          /\ last' = [op |-> "setSelectedSlot", slot |-> slot]
    /\ UNCHANGED <<worldVars, playerVars, inventory, spawn, ticks, timeVars, ops>>

NextInventory ==
    \/ InventoryAdd
    \/ InventoryRemove
    \/ InventorySelect
SpecInventory == InitInventory /\ [][NextInventory]_vars

\* The inventories SpecInteract starts from, up to the counts.
FullOfDirt == \A i \in 1..Slots : inventory[i].type = "dirt"
DirtGapGrass ==
    /\ inventory[1].type = "dirt"
    /\ inventory[2].type = Null
    /\ inventory[3].type = "grass"
    /\ \A i \in 4..Slots : inventory[i].type = Null

---------------------------------------------------------------------------
(* SpecDrop: the landing scenario.  One block at (0, by, 0), the avatar     *)
(* released airborne and at rest at spawn, straight above it; no input.    *)

\* The block of the scenario lies at y in 0 .. DropMaxY.
DropMaxY == 3
\* Heights of the avatar above the block's centre at release.
DropHeights == {2, 5}

InitDrop ==
    /\ \E by \in 0..DropMaxY, dh \in DropHeights :
          /\ blocks = addBlock(<<>>, 1, Cell(0, by, 0, "stone"))
          /\ spawn = Vec(0, by + dh, 0)
    /\ position = WholeVec(spawn)
    /\ nextId = 2
    /\ velocity = Vec(0, 0, 0)
    /\ onGround = FALSE
    /\ fallTime = 0
    /\ inventory = EmptyInventory
    /\ selectedSlot = 0
    /\ camera = position
    /\ last = Op("init")
    /\ ticks = 0
    /\ clock = 0
    /\ lastFrameTime = 0
    /\ ops = 0

\* Player.update, with the camera following.
PlayerBecomes(q) ==
    /\ position' = q.position
    /\ velocity' = q.velocity
    /\ onGround' = q.onGround
    /\ fallTime' = q.fallTime
    /\ camera' = EyeLevel(q.position)
UpdateBody ==
    /\ PlayerBecomes(update(FrameDelta, Player, blocks))
    /\ last' = Op("update")

DropUpdate ==
    /\ UpdateBody
    /\ UNCHANGED <<worldVars, invVars, spawn, ticks, timeVars, ops>>

NextDrop == DropUpdate
SpecDrop == InitDrop /\ [][NextDrop]_vars
FairDrop == SpecDrop /\ WF_vars(DropUpdate)

---------------------------------------------------------------------------
(* Claims on landing, checked under SpecDrop.                               *)

\* C1: after every update, fallTime is 0 whenever onGround is true; fallTime
\* is reset to 0 in the very update in which the avatar becomes grounded.
C1_GroundedFallTimeZero ==
    (last.op = "update" /\ onGround) => fallTime = 0

\* The scenario of C2: a single block at (0, 0, 0), the avatar released at
\* (0, 5, 0).
LandingScenario ==
    /\ Len(blocks) = 1
    /\ SamePlace(blocks[1], Vec(0, 0, 0))
    /\ spawn = Vec(0, 5, 0)
\* Resting on the block: y = 0.5 + height / 2, grounded, no vertical speed.
LandedOnTop ==
    /\ position.y = FAdd(HalfAbove(0), HalfHeight)
    /\ position.y = Lit((11 * D) \div 10)
    /\ onGround
    /\ velocity.y = 0

\* C2: in the landing scenario, once the avatar rests on the block at
\* y = 1.1, grounded and with velocity.y = 0, it stays in that state on
\* every later update.
C2_LandedStays ==
    [][(LandingScenario /\ LandedOnTop) => LandedOnTop']_vars
\* The avatar of the landing scenario has reached y = 1.1, grounded, with
\* velocity.y = 0.
C2_Witness ==
    LandingScenario /\ LandedOnTop /\ last.op = "update"

---------------------------------------------------------------------------
(* SpecSpawn: the first frames of a game.  The world is as generateTerrain  *)
(* leaves it, the avatar is at findSafeSpawnPosition(), and update runs     *)
(* once per frame with no input.                                           *)

SpecSpawn == InitWorld /\ [][NextDrop]_vars

\* C11: after terrain and tree generation the avatar placed at
\* findSafeSpawnPosition() has a box (0.6 x 1.2 x 0.6) that intersects no
\* block, and its first update performs no collision correction: it only
\* applies one step of gravity.
C11_SpawnCollisionFree ==
    [][last.op = "init" =>
          /\ position = WholeVec(spawn)
          /\ \A i \in 1..Len(blocks) :
                /\ ~intersectsBox(PlayerBox(position), UnitBox(blocks[i]))
                /\ ~(/\ blocks[i].x = spawn.x /\ blocks[i].z = spawn.z
                     /\ AbsInt(blocks[i].y - spawn.y) <= 1)
          /\ (last'.op = "update" =>
                /\ position'.x = position.x
                /\ position'.z = position.z
                /\ position'.y = FSub(position.y, Num(25 * 60 + 14, 0))
                /\ velocity' = Vec(0, -(25 * 60 + 14), 0)
                /\ ~onGround'
                /\ fallTime' = 1)]_vars
\* The first update was made in a world whose spawn column carries the
\* leaves of a tree.
C11_Witness ==
    /\ last.op = "update"
    /\ fallTime = 1
    /\ \E i \in 1..Len(blocks) :
          blocks[i].x = 0 /\ blocks[i].z = 0 /\ blocks[i].type = "leaves"

---------------------------------------------------------------------------
(* SpecPhysics: update, jump and move in any order.  One block at          *)
(* (0, 0, 0); the avatar starts airborne and at rest, either at the spawn   *)
(* position of the Game constructor or where the Player constructor puts   *)
(* it, (0, 20, 0).  It can land, jump, walk along +x and step off the      *)
(* block, after which nothing is below it.                                 *)

\* update is not called once the avatar is past x = MaxX or below y = -Depth
\* or has fallTime = MaxFallTime steps.
MaxX == 1
Depth == 2
MaxFallTime == 100

\* this.position = new THREE.Vector3(0, 20, 0)
ConstructedAt == Vec(0, 20, 0)
\* The delta arguments update is called with, in fixed steps.
Deltas == {FrameDelta, 3}
\* The key states input.update() passes to move: none, or right (D) alone.
MoveInputs == { [x |-> 0, z |-> 0], [x |-> 1, z |-> 0] }

\* onGround and fallTime as the most recent update left them.
NoUpdate == [updated |-> FALSE, onGround |-> FALSE, fallTime |-> 0]
EndOfUpdate ==
    IF last.op = "update"
    THEN [updated |-> TRUE, onGround |-> onGround, fallTime |-> fallTime]
    ELSE last.prev

InitPhysics ==
    /\ blocks = addBlock(<<>>, 1, Cell(0, 0, 0, "stone"))
    /\ nextId = 2
    /\ spawn \in {findSafeSpawnPosition(blocks), ConstructedAt}
    /\ PlayerIs(Spawned(spawn))
    /\ camera = IF spawn = ConstructedAt THEN EyeLevel(position) ELSE position
    /\ inventory = EmptyInventory
    /\ selectedSlot = 0
    /\ last = [op |-> "init", prev |-> NoUpdate]
    /\ ticks = 0
    /\ clock = 0
    /\ lastFrameTime = 0
    /\ ops = 0

PhysicsUpdate ==
    /\ fallTime < MaxFallTime
    /\ position.x.n <= MaxX * D
    /\ position.y.n >= -Depth * D
    /\ \E delta \in Deltas :
          /\ PlayerBecomes(update(delta, Player, blocks))
          /\ last' = [op |-> "update", delta |-> delta, prev |-> EndOfUpdate]
    /\ UNCHANGED <<worldVars, invVars, spawn, ticks, timeVars, ops>>

\* The player after jump or move: the camera stays where update left it.
PlayerSet(q) ==
    /\ position' = q.position
    /\ velocity' = q.velocity
    /\ onGround' = q.onGround
    /\ fallTime' = q.fallTime
    /\ camera' = camera

\* Space key or the keypad's jump button
PhysicsJump ==
    /\ PlayerSet(jump(Player))
    /\ last' = [op |-> "jump", grounded |-> onGround, prev |-> EndOfUpdate]
    /\ UNCHANGED <<worldVars, invVars, spawn, ticks, timeVars, ops>>

\* input.update(): player.move(direction, this.keys.sprint)
PhysicsMove ==
    /\ \E direction \in MoveInputs :
          /\ PlayerSet(move(Player, direction, FALSE))
          /\ last' = [op |-> "move", direction |-> direction, prev |-> EndOfUpdate]
    /\ UNCHANGED <<worldVars, invVars, spawn, ticks, timeVars, ops>>

NextPhysics ==
    \/ PhysicsUpdate
    \/ PhysicsJump
    \/ PhysicsMove
SpecPhysics == InitPhysics /\ [][NextPhysics]_vars

---------------------------------------------------------------------------
(* Claims on update, jump and move, checked under SpecPhysics.  Velocities *)
(* are in units of 1/3600 per second and fallTime in steps of 1/60 s, so   *)
(* a gravity of g per second takes 60 * g velocity units in one update.    *)

\* C12: every update that starts airborne takes currentGravity / 60 from
\* velocity.y, where currentGravity = min(25 + 14 * fallTime, 35) is never
\* below 25 and never above 35 (the landing update then sets velocity.y to
\* 0); an update that starts grounded leaves velocity.y as it was.
C12_GravityClamp ==
    [][last'.op = "update" =>
          LET currentGravity ==
                  IF 25 * 60 + 14 * fallTime' <= 35 * 60
                  THEN 25 * 60 + 14 * fallTime'
                  ELSE 35 * 60
          IN  IF onGround
              THEN velocity'.y = velocity.y
              ELSE /\ currentGravity >= 25 * 60
                   /\ currentGravity <= 35 * 60
                   /\ IF onGround' THEN velocity'.y = 0
                      ELSE velocity.y - velocity'.y = currentGravity]_vars
\* An update of a fall long enough for 25 + 14 * fallTime to exceed 35.
C12_Witness ==
    /\ last.op = "update"
    /\ ~onGround
    /\ last.prev.updated /\ ~last.prev.onGround
    /\ 25 * 60 + 14 * fallTime > 35 * 60

\* C13: across two consecutive updates that both end airborne fallTime does
\* not decrease, whatever jump and move calls come between them; it grows
\* by exactly one step in every update that starts airborne.
C13_FallTimeMonotone ==
    [][last'.op = "update" =>
          /\ (~onGround => fallTime' = fallTime + 1)
          /\ ((last'.prev.updated /\ ~last'.prev.onGround /\ ~onGround') =>
                 /\ fallTime' >= last'.prev.fallTime
                 /\ fallTime' = last'.prev.fallTime + 1)]_vars
\* Two consecutive updates ended airborne with a move call between them:
\* only the second one has moved the avatar along x.
C13_Witness ==
    /\ last.op = "update"
    /\ last.prev.updated /\ ~last.prev.onGround
    /\ ~onGround
    /\ fallTime >= 2
    /\ velocity.x = walkSpeed
    /\ position.x = FAdd(Zero, Num(walkSpeed, 0))

\* C14: jump() when grounded sets velocity.y to 8.5 and clears onGround;
\* when airborne it changes nothing; in both cases nothing else changes, so
\* a second jump before an update has grounded the avatar has no effect.
C14_JumpOnlyGrounded ==
    [][last'.op = "jump" =>
          /\ IF onGround
             THEN 10 * velocity'.y = 85 * VelUnit /\ ~onGround'
             ELSE velocity'.y = velocity.y /\ onGround' = onGround
          /\ velocity'.x = velocity.x
          /\ velocity'.z = velocity.z
          /\ position' = position
          /\ fallTime' = fallTime
          /\ camera' = camera
          /\ blocks' = blocks
          /\ inventory' = inventory
          /\ selectedSlot' = selectedSlot]_vars
\* A second jump was called right after a jump from the ground, before any
\* update: the avatar is airborne with the velocity the first jump gave it.
C14_Witness ==
    /\ last.op = "jump"
    /\ ~last.grounded
    /\ ~onGround
    /\ 10 * velocity.y = 85 * VelUnit

\* C15: update gives the same next position, velocity, onGround and fallTime
\* for every delta argument; a free flight step moves the avatar by its
\* velocity times 1/60.
C15_FixedTimestep ==
    [][last'.op = "update" =>
          /\ \A d \in Deltas :
                update(d, Player, blocks) =
                    [position |-> position', velocity |-> velocity',
                     onGround |-> onGround', fallTime |-> fallTime']
          /\ (~onGround /\ ~onGround' =>
                 position'.y = FAdd(position.y, Num(velocity'.y, 0)))]_vars
\* update was called with a delta of three frames while the avatar was
\* falling and moving sideways.
C15_Witness ==
    /\ last.op = "update"
    /\ last.delta = 3
    /\ ~onGround
    /\ velocity.x # 0
    /\ velocity.y < 0

---------------------------------------------------------------------------
(* SpecSlots: the inventory methods called directly, at most MaxInputs     *)
(* calls, from the inventories of InitInventories.                         *)

InitSlots ==
    /\ blocks = <<>>
    /\ nextId = 1
    /\ spawn = findSafeSpawnPosition(blocks)
    /\ PlayerIs(Spawned(spawn))
    /\ camera = position
    /\ inventory \in InitInventories
    /\ selectedSlot = 0
    /\ last = Op("init")
    /\ ticks = 0
    /\ clock = 0
    /\ lastFrameTime = 0
    /\ ops = 0

SlotsAdd ==
    /\ ops < MaxInputs
    /\ \E t \in InventoryTypes :
          /\ inventory' = addToInventory(inventory, selectedSlot, t)
          /\ last' = [op |-> "addToInventory", type |-> t]
    /\ ops' = ops + 1
    /\ UNCHANGED <<worldVars, playerVars, selectedSlot, spawn, ticks, timeVars>>

SlotsRemove ==
    /\ ops < MaxInputs
    /\ inventory' = removeFromInventory(inventory, selectedSlot)
    /\ last' = Op("removeFromInventory")
    /\ ops' = ops + 1
    /\ UNCHANGED <<worldVars, playerVars, selectedSlot, spawn, ticks, timeVars>>

NextSlots ==
    \/ SlotsAdd
    \/ SlotsRemove
    \/ SelectSlot
SpecSlots == InitSlots /\ [][NextSlots]_vars

\* The inventory has 9 slots, no count is negative, a count is 0 exactly
\* when the type is empty, and the selected index is one of 0 .. 8.
SlotsWellFormed(inv, sel) ==
    /\ Len(inv) = 9
    /\ \A i \in 1..Len(inv) :
          /\ inv[i].count >= 0
          /\ (inv[i].count = 0 <=> inv[i].type = Null)
    /\ sel \in 0..8

\* C16: after any sequence of addToInventory, removeFromInventory and
\* setSelectedSlot calls the inventory is well formed (9 slots, counts >= 0,
\* count 0 exactly for the empty type, selected index in [0, 9)), and
\* setSelectedSlot with an out-of-range index changes nothing.
C16_InventoryInvariant ==
    [][/\ SlotsWellFormed(inventory, selectedSlot)
       /\ SlotsWellFormed(inventory', selectedSlot')
       /\ (last'.op = "setSelectedSlot" =>
             /\ inventory' = inventory
             /\ selectedSlot' = IF last'.slot \in 0..8 THEN last'.slot
                                ELSE selectedSlot)]_vars
\* setSelectedSlot(9) was called while slot 8 was selected.
C16_Witness ==
    /\ last.op = "setSelectedSlot"
    /\ last.slot = 9
    /\ selectedSlot = 8

\* The slots of inv that hold type t or are empty.
Accepting(inv, t) == { i \in 1..Len(inv) : inv[i].type \in {t, Null} }

\* C17: addToInventory(T) adds to the first slot that holds T or is empty
\* (count + 1, or the slot becomes (T, 1)); when there is no such slot the
\* selected slot takes the new type T; no other slot changes.
C17_AddToInventory ==
    [][last'.op = "addToInventory" =>
          LET T == last'.type
              open == Accepting(inventory, T)
              slot == IF open = {} THEN selectedSlot + 1
                      ELSE CHOOSE i \in open : \A j \in open : i <= j
          IN  /\ inventory'[slot].type = T
              /\ (open # {} =>
                     inventory'[slot].count = inventory[slot].count + 1)
              /\ \A i \in 1..Slots :
                    i # slot => inventory'[i] = inventory[i]]_vars

---------------------------------------------------------------------------
(* SpecTerrain: the world as generateTerrain leaves it, for noise fields   *)
(* that give every column every noise value, with at most one tree.        *)

\* Noise fields, in units of 1 / NoiseScale: field nv gives column k the
\* value (nv + k) mod (2 * NoiseScale + 1) - NoiseScale, so that over the
\* fields every column takes every value of -1 .. 1.
RampFields ==
    { [k \in 1..Len(Columns) |->
         ((nv + k) % (2 * NoiseScale + 1)) - NoiseScale] :
        nv \in 0..(2 * NoiseScale) }
\* Math.random() < 0.01 at no column, or at one column, with each height.
OneTree ==
    {NoTree} \cup { [NoTree EXCEPT ![k] = h] :
                       k \in 1..Len(Columns), h \in TreeHeights }

InitTerrain ==
    /\ \E noise \in RampFields, tree \in OneTree :
          /\ blocks = generateTerrain(noise, tree)
          /\ last = [op |-> "generateTerrain", noise |-> noise, tree |-> tree]
    /\ nextId = Len(blocks) + 1
    /\ InitPlayerAt(findSafeSpawnPosition(blocks))

SpecTerrain == InitTerrain /\ [][WorldFindSpawn]_vars

\* The blocks of bs in column (x, z) whose type is one of types.
InColumn(bs, x, z, types) ==
    { i \in 1..Len(bs) : bs[i].x = x /\ bs[i].z = z /\ bs[i].type \in types }
\* The positions of the blocks of bs with the given type.
PlacesOf(bs, type) ==
    { <<bs[i].x, bs[i].y, bs[i].z>> : i \in { j \in 1..Len(bs) : bs[j].type = type } }
CountOf(bs, type) == Cardinality({ j \in 1..Len(bs) : bs[j].type = type })

\* C18: for every column of the generated square and every noise value in
\* [-1, 1], elevation = floor((noise + 1) * maxHeight / 2) lies in
\* 0 .. maxHeight and the column holds exactly one terrain block at each y
\* of 0 .. elevation and none elsewhere: grass at y = elevation, dirt at
\* elevation - 3 < y < elevation, stone at y <= elevation - 3.
C18_TerrainColumns ==
    last.op = "generateTerrain" =>
        \A k \in 1..Len(Columns) :
            LET terrain == InColumn(blocks, Columns[k].x, Columns[k].z,
                                    {"grass", "dirt", "stone"})
                scaled == (last.noise[k] + NoiseScale) * height
            IN  \E e \in 0..height :
                    /\ 2 * NoiseScale * e <= scaled
                    /\ scaled < 2 * NoiseScale * (e + 1)
                    /\ \A y \in 0..e :
                          Cardinality({ i \in terrain : blocks[i].y = y }) = 1
                    /\ \A i \in terrain :
                          /\ blocks[i].y \in 0..e
                          /\ blocks[i].y = e => blocks[i].type = "grass"
                          /\ (e - 3 < blocks[i].y /\ blocks[i].y < e)
                                => blocks[i].type = "dirt"
                          /\ blocks[i].y <= e - 3 => blocks[i].type = "stone"
\* A terrain with a column of noise 1 (elevation = maxHeight, stone below
\* the dirt) and a column of noise -1 (a single grass block).
C18_Witness ==
    /\ last.op = "generateTerrain"
    /\ \E k \in 1..Len(Columns) :
          /\ last.noise[k] = NoiseScale
          /\ \E i \in InColumn(blocks, Columns[k].x, Columns[k].z, {"grass"}) :
                blocks[i].y = height
          /\ InColumn(blocks, Columns[k].x, Columns[k].z, {"stone"}) # {}
    /\ \E k \in 1..Len(Columns) :
          /\ last.noise[k] = -NoiseScale
          /\ Cardinality(InColumn(blocks, Columns[k].x, Columns[k].z,
                                   {"grass", "dirt", "stone"})) = 1

\* C19: a tree rooted at (x, y, z) has a trunk height h in {4, 5, 6}, exactly
\* h wood blocks, at (x, y + i, z) for i in 0 .. h - 1, and one leaf block
\* at each cell (x + lx, y + h + ly, z + lz) with lx, lz in -2 .. 2 and ly in
\* -1 .. 2 except where |lx| = 2 and |lz| = 2, and no other leaf block.
C19_TreeShape ==
    (last.op = "generateTerrain" /\ last.tree # NoTree) =>
        LET k == CHOOSE c \in 1..Len(Columns) : last.tree[c] # 0
            x == Columns[k].x
            z == Columns[k].z
            y == Cardinality(InColumn(blocks, x, z, {"grass", "dirt", "stone"}))
            h == CountOf(blocks, "wood")
            cells == { <<x + lx, y + h + ly, z + lz>> :
                         lx \in -2..2, ly \in -1..2, lz \in -2..2 }
            corners == { c \in cells : AbsInt(c[1] - x) = 2 /\ AbsInt(c[3] - z) = 2 }
        IN  /\ h \in {4, 5, 6}
            /\ h = last.tree[k]
            /\ PlacesOf(blocks, "wood") = { <<x, y + i, z>> : i \in 0..(h - 1) }
            /\ PlacesOf(blocks, "leaves") = cells \ corners
            /\ CountOf(blocks, "leaves") = Cardinality(cells \ corners)
            /\ Cardinality(corners) = 16
\* A tree of trunk height 6 was generated on a column of elevation 0.
C19_Witness ==
    /\ last.op = "generateTerrain"
    /\ \E k \in 1..Len(Columns) :
          /\ last.tree[k] = 6
          /\ last.noise[k] = -NoiseScale
    /\ CountOf(blocks, "wood") = 6
    /\ CountOf(blocks, "leaves") = 84

---------------------------------------------------------------------------
(* SpecScene and SpecFlat: update, jump and move among several blocks.    *)
(* The world of SpecFlat is a flat floor of two blocks; that of SpecScene  *)
(* is the same floor with a step on its second block and a block one cell  *)
(* above the step.  The avatar starts at its spawn position above the      *)
(* first floor block.                                                      *)

FlatCells == << Cell(0, 0, 0, "grass"), Cell(1, 0, 0, "grass") >>
StepCells == FlatCells \o << Cell(1, 1, 0, "stone"), Cell(1, 3, 0, "leaves") >>

InitSceneOf(cells) ==
    /\ blocks = AddAll(<<>>, 1, cells)
    /\ nextId = Len(blocks) + 1
    /\ spawn = findSafeSpawnPosition(blocks)
    /\ PlayerIs(Spawned(spawn))
    /\ camera = position
    /\ inventory = EmptyInventory
    /\ selectedSlot = 0
    /\ last = [op |-> "init", prev |-> NoUpdate]
    /\ ticks = 0
    /\ clock = 0
    /\ lastFrameTime = 0
    /\ ops = 0
InitScene == InitSceneOf(StepCells)
InitFlat == InitSceneOf(FlatCells)

\* The body of Game.animate for a tick that is executed: input.update()
\* calls move with the direction of the keys (sprint is not held), then
\* player.update(delta) runs; world.update() does nothing.
TickBody ==
    \E direction \in MoveInputs :
        /\ PlayerBecomes(update(FrameDelta, move(Player, direction, FALSE), blocks))
        /\ last' = [op |-> "update", delta |-> FrameDelta,
                    direction |-> direction, prev |-> EndOfUpdate]
FrameTick ==
    /\ fallTime < MaxFallTime
    /\ position.x.n <= MaxX * D
    /\ position.y.n >= -Depth * D
    /\ TickBody
    /\ UNCHANGED <<worldVars, invVars, spawn, ticks, timeVars, ops>>

NextFrame ==
    \/ FrameTick
    \/ PhysicsJump

SpecFlat == InitFlat /\ [][NextFrame]_vars
SpecScene == InitScene /\ [][NextFrame]_vars

---------------------------------------------------------------------------
(* Claims on collision resolution, checked under SpecScene.  They are      *)
(* stated on the loop of handleCollisions: Entering is the avatar after    *)
(* gravity and integration, and LoopStates lists the state before each     *)
(* intersecting block in turn, ending with the state after the last one.   *)

Entering(p) == Integrate(ApplyGravity(p))
\* The avatar after input.update() in the tick being taken.
Moved == move(Player, last'.direction, FALSE)
RECURSIVE LoopStates(_, _, _, _)
LoopStates(s, bs, i, playerBox) ==
    IF i > Len(bs) THEN <<s>>
    ELSE <<s>> \o LoopStates(CollideBlock(s, bs[i], playerBox), bs, i + 1, playerBox)
\* The loop for the avatar p: the box, the blocks it intersects in the
\* order of world.blocks.children, and the loop states.
LoopThrough(p, touched, box) ==
    [box |-> box, touched |-> touched,
     states |-> LoopStates([position |-> p.position, velocity |-> p.velocity,
                            onGround |-> p.onGround,
                            highestBlockY |-> NegInfinity],
                           touched, 1, box)]
LoopIn(p, bs, box) == LoopThrough(p, Colliding(bs, box), box)
LoopOf(p, bs) == LoopIn(p, bs, PlayerBox(p.position))

\* The three penetration depths of a block into the box.
Depths(b, box) ==
    [x |-> Penetration(box.max.x, UnitBox(b).min.x, box.min.x, UnitBox(b).max.x),
     y |-> Penetration(box.max.y, UnitBox(b).min.y, box.min.y, UnitBox(b).max.y),
     z |-> Penetration(box.max.z, UnitBox(b).min.z, box.min.z, UnitBox(b).max.z)]
\* The axis resolved: Y on a tie with X or Z, X on a tie with Z.
AxisOf(d) ==
    IF Le(d.y, d.x) /\ Le(d.y, d.z) THEN "y"
    ELSE IF Le(d.x, d.z) THEN "x" ELSE "z"

\* One block's horizontal resolution, from loop state s to loop state t.
PushedAlongX(s, t, b) ==
    /\ t.position.x = IF Gt(s.position.x, Whole(b.x))
                      THEN FAdd(HalfAbove(b.x), HalfWidth)
                      ELSE FSub(HalfBelow(b.x), HalfWidth)
    /\ t.velocity.x = 0
    /\ t.position.y = s.position.y /\ t.position.z = s.position.z
    /\ t.velocity.y = s.velocity.y /\ t.velocity.z = s.velocity.z
    /\ t.onGround = s.onGround
PushedAlongZ(s, t, b) ==
    /\ t.position.z = IF Gt(s.position.z, Whole(b.z))
                      THEN FAdd(HalfAbove(b.z), HalfWidth)
                      ELSE FSub(HalfBelow(b.z), HalfWidth)
    /\ t.velocity.z = 0
    /\ t.position.x = s.position.x /\ t.position.y = s.position.y
    /\ t.velocity.x = s.velocity.x /\ t.velocity.y = s.velocity.y
    /\ t.onGround = s.onGround
\* The box at loop state t touches the face of b it was pushed to.
TouchesFaceX(s, t, b) ==
    IF Gt(s.position.x, Whole(b.x))
    THEN PlayerBox(t.position).min.x = HalfAbove(b.x)
    ELSE PlayerBox(t.position).max.x = HalfBelow(b.x)

HorizontalStep(axis, s, t, b) ==
    /\ axis = "x" => PushedAlongX(s, t, b) /\ TouchesFaceX(s, t, b)
    /\ axis = "z" => PushedAlongZ(s, t, b)
HorizontalResolution(loop) ==
    \A i \in 1..Len(loop.touched) :
        HorizontalStep(AxisOf(Depths(loop.touched[i], loop.box)),
                       loop.states[i], loop.states[i + 1], loop.touched[i])

PushedBelow(s, t, b) ==
    /\ t.position.y = FSub(HalfBelow(b.y), HalfHeight)
    /\ t.velocity.y = IF s.velocity.y > 0 THEN 0 ELSE s.velocity.y
    /\ t.onGround = s.onGround
CeilingContact(loop) ==
    \A i \in 1..Len(loop.touched) :
        (/\ AxisOf(Depths(loop.touched[i], loop.box)) = "y"
         /\ ~Gt(loop.states[i].position.y, Whole(loop.touched[i].y)))
        => PushedBelow(loop.states[i], loop.states[i + 1], loop.touched[i])

\* C22: in every update, a block that intersects the avatar's box with Y as
\* its axis of minimum penetration, while the avatar's centre is not above
\* the block's centre, sets position.y to blockBottom - height/2 and
\* velocity.y to min(0, velocity.y): upward velocity is removed, downward
\* velocity is kept; onGround is left as it was, so this branch never sets
\* it to true.
C22_CeilingContact ==
    [][last'.op = "update" =>
          CeilingContact(LoopOf(Entering(Moved), blocks))]_vars
\* The rising avatar met the underside of the block overhead: it is at
\* y = 2.5 - 0.6 with velocity.y = 0, airborne.
C22_Witness ==
    /\ last.op = "update"
    /\ Len(blocks) = Len(StepCells)
    /\ position.y = FSub(HalfBelow(3), HalfHeight)
    /\ velocity.y = 0
    /\ ~onGround

---------------------------------------------------------------------------
(* Claims on leaving the ground, checked under SpecPhysics.                *)

\* Block i of the loop is one the avatar is snapped onto: Y is its axis of
\* minimum penetration, the avatar's centre is above the block's centre and
\* the avatar is not rising.
SnapsOnto(loop, i) ==
    /\ AxisOf(Depths(loop.touched[i], loop.box)) = "y"
    /\ Gt(loop.states[i].position.y, Whole(loop.touched[i].y))
    /\ loop.states[i].velocity.y <= 0
\* highestBlockY at the end of the loop.
HighestAfter(loop) == loop.states[Len(loop.states)].highestBlockY
LeavesGround(loop, pos, grounded) ==
    /\ (\A i \in 1..Len(loop.touched) : ~SnapsOnto(loop, i)) => ~grounded
    /\ (HighestAfter(loop).inf
        \/ Gt(pos.y, FAdd(Whole(HighestAfter(loop).v), Tenth))) => ~grounded

\* C23: an update in which the avatar's box, after integration, intersects
\* no block the avatar is snapped onto ends with onGround = false, whatever
\* onGround was before; onGround is cleared at the end of every update with
\* position.y > highestBlockY + 0.1.  From then on every update applies
\* gravity (fallTime grows by a step and velocity.y falls by at least 25/60)
\* until one lands the avatar, and no jump or move sets onGround.
C23_LeavingGround ==
    [][/\ last'.op = "update" =>
             /\ LeavesGround(LoopOf(Entering(Player), blocks), position', onGround')
             /\ (~onGround /\ ~onGround') =>
                    /\ fallTime' = fallTime + 1
                    /\ velocity'.y <= velocity.y - 25 * 60
       /\ last'.op # "update" => (onGround' => onGround)]_vars
\* The avatar, grounded on the block at y = 1.1, has walked past its edge at
\* x = 0.5 + 0.3: the update kept it at y = 1.1 and cleared onGround.
C23_Witness ==
    /\ last.op = "update"
    /\ ~onGround
    /\ velocity.y = 0
    /\ position.y = Lit((11 * D) \div 10)
    /\ Gt(position.x, FAdd(HalfAbove(0), HalfWidth))

---------------------------------------------------------------------------
(* SpecAnimate: the animate loop.  The browser calls Game.animate once per *)
(* animation frame; the call reads the clock and runs the tick body when   *)
(* enough time has passed since the tick before.  The world is the flat    *)
(* floor, the avatar falls from its spawn position, and the keys may       *)
(* change between any two ticks.                                           *)

\* Clock values are counted in units of 1/60 ms.
TimeUnit == 60
targetFPS == 60
frameInterval == (1000 * TimeUnit) \div targetFPS
\* Time between two animation frames (6.95 ms, just under and exactly one
\* frame interval, 40 ms), and the clock value at which the loop is left.
RafSteps == {417, 999, 1000, 2400}
MaxTime == 5000

\* elapsed measured from the time origin instead of the last tick.
elapsedSinceOrigin(currentTime, lastTime) == currentTime

\* const elapsed = currentTime - this.lastFrameTime
elapsed(currentTime, lastTime) == currentTime - lastTime

\* Game.animate
Animate ==
    /\ \E step \in RafSteps :
          /\ clock + step <= MaxTime
          /\ clock' = clock + step
          /\ IF elapsed(clock + step, lastFrameTime) >= frameInterval
             THEN /\ TickBody
                  /\ lastFrameTime' = clock + step
                  /\ ticks' = ticks + 1
             ELSE /\ last' = [op |-> "skip", prev |-> EndOfUpdate]
                  /\ UNCHANGED <<playerVars, lastFrameTime, ticks>>
    /\ UNCHANGED <<worldVars, invVars, spawn, ops>>

SpecAnimate == InitFlat /\ [][Animate]_vars

\* C24: a call of animate runs the tick body when the clock is at least one
\* frame interval (1000/60 ms) past the last executed tick and skips it
\* otherwise, leaving the player and lastFrameTime alone.  An executed tick
\* calls input.update (move with the direction of the keys), then
\* player.update, once each, and changes no block: the step taken uses the
\* velocity of this tick's keys and advances fallTime by one step.  Two
\* executed ticks are at least one frame interval apart, and the simulated
\* time, ticks / 60 s, never exceeds the clock.
C24_FrameGating ==
    [][/\ IF 60 * (clock' - lastFrameTime) >= 1000 * TimeUnit
          THEN /\ last'.op = "update"
               /\ ticks' = ticks + 1
               /\ lastFrameTime' = clock'
               /\ ~onGround /\ ~onGround' =>
                     /\ velocity'.x = last'.direction.x * walkSpeed
                     /\ position'.x = FAdd(position.x, Num(velocity'.x, 0))
                     /\ fallTime' = fallTime + 1
                     /\ velocity'.y = velocity.y - CurrentGravity(fallTime')
                     /\ position'.y = FAdd(position.y, Num(velocity'.y, 0))
          ELSE /\ last'.op = "skip"
               /\ ticks' = ticks
               /\ lastFrameTime' = lastFrameTime
               /\ position' = position /\ velocity' = velocity
               /\ onGround' = onGround /\ fallTime' = fallTime
       /\ blocks' = blocks
       /\ (ticks' > ticks /\ ticks >= 1) =>
             60 * (clock' - lastFrameTime) >= 1000 * TimeUnit
       /\ ticks' * 1000 * TimeUnit <= 60 * clock']_vars
\* A call of animate came 999/60 ms after an executed tick and was skipped,
\* with the right key held since the tick before.
C24_Witness ==
    /\ last.op = "skip"
    /\ clock - lastFrameTime = 999
    /\ ticks >= 2
    /\ velocity.x = walkSpeed

---------------------------------------------------------------------------
(* Claims on the corrected position, checked under SpecScene and SpecFlat. *)

\* The interiors of two boxes overlap: touching faces do not count.
OverlapsInterior(a, b) ==
    /\ Lt(a.min.x, b.max.x) /\ Gt(a.max.x, b.min.x)
    /\ Lt(a.min.y, b.max.y) /\ Gt(a.max.y, b.min.y)
    /\ Lt(a.min.z, b.max.z) /\ Gt(a.max.z, b.min.z)
Clear(pos, bs) ==
    \A i \in 1..Len(bs) : ~OverlapsInterior(PlayerBox(pos), UnitBox(bs[i]))

\* C25: an update that starts with the avatar's box overlapping no block's
\* interior (touching faces allowed) ends, after collision correction, with
\* the box overlapping no block's interior.
C25_NonPenetration ==
    [][(last'.op = "update" /\ Clear(position, blocks))
          => Clear(position', blocks)]_vars

\* C26: on the flat floor, an update that lands the airborne avatar leaves
\* position.x, position.z, velocity.x and velocity.z as move and the
\* integration produced them: collision resolution changes only
\* position.y, velocity.y and onGround, wherever the avatar comes down.
C26_LandingVertical ==
    [][(last'.op = "update" /\ ~onGround /\ onGround') =>
          /\ velocity'.x = last'.direction.x * walkSpeed
          /\ velocity'.z = 0
          /\ position'.x = FAdd(position.x, Num(last'.direction.x * walkSpeed, 0))
          /\ position'.z = position.z]_vars

---------------------------------------------------------------------------
(* Claims on resting and support.                                          *)

\* The footprint of the box a overlaps or touches that of the box b.
FootprintsMeet(a, b) ==
    ~(  Lt(b.max.x, a.min.x) \/ Gt(b.min.x, a.max.x)
     \/ Lt(b.max.z, a.min.z) \/ Gt(b.min.z, a.max.z))
\* The avatar at pos stands exactly on top of block b.
StandsOn(pos, b) ==
    /\ pos.y = FAdd(HalfAbove(b.y), HalfHeight)
    /\ FootprintsMeet(PlayerBox(pos), UnitBox(b))
Resting ==
    /\ onGround
    /\ velocity = Vec(0, 0, 0)
    /\ \E i \in 1..Len(blocks) : StandsOn(position, blocks[i])

\* C27: once the avatar is grounded with zero velocity exactly on top of a
\* block (position.y = blockTop + height/2), every update without input
\* leaves position and velocity unchanged and onGround true.  Checked under
\* SpecDrop, where update is the only step.
C27_RestingStable ==
    [][Resting => (position' = position /\ velocity' = velocity /\ onGround')]_vars

\* C28: after every update that ends with onGround = true, velocity.y is 0
\* and some block has its top face exactly at the bottom of the avatar's box
\* (position.y = blockTop + height/2) while its horizontal extent overlaps
\* or touches the avatar's footprint.
C28_GroundedSupported ==
    (last.op = "update" /\ onGround) =>
        /\ velocity.y = 0
        /\ \E i \in 1..Len(blocks) : StandsOn(position, blocks[i])

\* One block met from above, from loop state s to loop state t: a snap onto
\* its top when the avatar is not rising, nothing otherwise.
TopStep(s, t, b) ==
    IF s.velocity.y <= 0
    THEN /\ Lt(FSub(s.position.y, FAdd(HalfAbove(b.y), HalfHeight)), Tenth)
         /\ t.position.y = FAdd(HalfAbove(b.y), HalfHeight)
         /\ t.velocity.y = 0
         /\ t.onGround
         /\ ~t.highestBlockY.inf /\ t.highestBlockY.v >= b.y + 1
    ELSE t = s
TopSnap(loop) ==
    \A i \in 1..Len(loop.touched) :
        (/\ AxisOf(Depths(loop.touched[i], loop.box)) = "y"
         /\ Gt(loop.states[i].position.y, Whole(loop.touched[i].y)))
        => TopStep(loop.states[i], loop.states[i + 1], loop.touched[i])

\* C29: in every update, a block that intersects the avatar's box with Y as
\* its axis of minimum penetration, while the avatar's centre is above the
\* block's centre, snaps the avatar onto its top (position.y = blockTop +
\* height/2, velocity.y = 0, onGround = true) exactly when velocity.y <= 0;
\* the gap between the position and the resting position is then always
\* below 0.1, and when velocity.y > 0 the block changes nothing.
C29_TopSnap ==
    [][last'.op = "update" => TopSnap(LoopOf(Entering(Moved), blocks))]_vars
\* The rising avatar has moved into the upper edge of the step and the step
\* made no correction: the update ends airborne with the box overlapping
\* the step's interior from above.
C29_Witness ==
    /\ last.op = "update"
    /\ last.direction.x = 1
    /\ ~onGround
    /\ Gt(position.y, Whole(1))
    /\ OverlapsInterior(PlayerBox(position), UnitBox(Cell(1, 1, 0, "stone")))

---------------------------------------------------------------------------
(* SpecFall: falls from a height.  One block at (0, 0, 0); the avatar is   *)
(* released at rest straight above it, MinFall to MaxFall cells above the  *)
(* block's centre, and update runs with no input.                          *)

MinFall == 2
MaxFall == 42
InitFall ==
    /\ blocks = addBlock(<<>>, 1, Cell(0, 0, 0, "stone"))
    /\ nextId = 2
    /\ \E h \in MinFall..MaxFall : spawn = Vec(0, h, 0)
    /\ PlayerIs(Spawned(spawn))
    /\ camera = position
    /\ inventory = EmptyInventory
    /\ selectedSlot = 0
    /\ last = [op |-> "init", prev |-> NoUpdate]
    /\ ticks = 0
    /\ clock = 0
    /\ lastFrameTime = 0
    /\ ops = 0

SpecFall == InitFall /\ [][PhysicsUpdate]_vars

\* The avatar's box is above the top of the block at (0, 0, 0).
AboveBlock(pos) == Gt(FSub(pos.y, HalfHeight), HalfAbove(0))

Landed(q) ==
    /\ q.position.y = FAdd(HalfAbove(0), HalfHeight)
    /\ q.velocity.y = 0
    /\ q.onGround
\* How far the box reaches below the block's top, and how far the block's
\* side reaches into the box along x.
FallDepth(box) == AbsNum(FSub(box.min.y, HalfAbove(0)))
SideOverlap(box) == AbsNum(FSub(box.min.x, HalfAbove(0)))
FallOutcome(e, box, q) ==
    IF ~intersectsBox(box, UnitBox(Cell(0, 0, 0, "stone")))
    THEN /\ q.position = e.position /\ q.velocity = e.velocity /\ ~q.onGround
         /\ AboveBlock(q.position)
    ELSE IF Le(FallDepth(box), SideOverlap(box))
    THEN /\ Landed(q)
         /\ q.position.x = e.position.x /\ q.position.z = e.position.z
    ELSE /\ q.position.x = FSub(HalfBelow(0), HalfWidth)
         /\ q.position.y = e.position.y /\ q.position.z = e.position.z
         /\ q.velocity = e.velocity /\ ~q.onGround
FallsOnto(e, q) == FallOutcome(e, PlayerBox(e.position), q)

====
